---- MODULE Spec2Model ----
(***************************************************************************)
(* Tic-Tac-Toe with Minimax and Alpha-Beta pruning (tictactoe_game.py).    *)
(*                                                                         *)
(* A Python list `board` of 9 cells is the tuple <<board[0],...,board[8]>>:*)
(* Python index i is tuple position i+1.  Cell values are the strings      *)
(* "X", "O" and " " of the source.  Moves are Python indices 0..8.         *)
(***************************************************************************)
EXTENDS Integers, Sequences, FiniteSets, TLC

VARIABLES
  pc,               \* where the running program is
  board,            \* the list `board`
  current,          \* play_game: `current`; search harness: the side to move
  first,            \* play_game: `first`
  use_pruning,      \* play_game: `use_pruning`
  pos,              \* play_game: `pos`
  typed,            \* the text the last input("Enter your move (1-9): ") returned
  said,             \* the last line play_game printed
  minimax_nodes,    \* global counter minimax_nodes
  alphabeta_nodes,  \* global counter alphabeta_nodes
  mm,               \* what the last minimax call on `board` returned
  ab,               \* what the last alphabeta call on `board` returned
  raised            \* the exception that ended the program, or "None"

vars == <<pc, board, current, first, use_pruning, pos, typed, said,
          minimax_nodes, alphabeta_nodes, mm, ab, raised>>

-----------------------------------------------------------------------------
(* Values *)

\* Python's None where an index is expected (best_move = None, line 67): an
\* integer that is no index the program computes.
None == -100

\* winner() returning None.
NoWinner == "None"

Marks == {"X", "O", " "}

\* The indices enumerate(board) yields, in order.
Cells == <<0, 1, 2, 3, 4, 5, 6, 7, 8>>

\* board = [' '] * 9
EmptyBoard == <<" ", " ", " ", " ", " ", " ", " ", " ", " ">>

-----------------------------------------------------------------------------
(* STEP 2: game rules and helpers *)

LINES == << <<0, 1, 2>>, <<3, 4, 5>>, <<6, 7, 8>>,
            <<0, 3, 6>>, <<1, 4, 7>>, <<2, 5, 8>>,
            <<0, 4, 8>>, <<2, 4, 6>> >>

\* `board[a] != ' ' and board[a] == board[b] == board[c]` for the k-th line.
Full(b, k) ==
  /\ b[LINES[k][1] + 1] # " "
  /\ b[LINES[k][1] + 1] = b[LINES[k][2] + 1]
  /\ b[LINES[k][2] + 1] = b[LINES[k][3] + 1]

\* winner() with the two diagonals left out of LINES.
winner_no_diagonals(b) ==
  LET full == {k \in 1..6 : Full(b, k)}
  IN  IF full = {} THEN NoWinner
      ELSE b[LINES[CHOOSE k \in full : \A j \in full : k <= j][1] + 1]

\* The for loop of winner(): the first line of LINES that is full decides.
winner(b) ==
  LET full == {k \in 1..Len(LINES) : Full(b, k)}
  IN  IF full = {} THEN NoWinner
      ELSE b[LINES[CHOOSE k \in full : \A j \in full : k <= j][1] + 1]

\* moves() listing the empty cells from the last to the first.
moves_descending(b) ==
  LET up == SelectSeq(Cells, LAMBDA i : b[i + 1] = " ")
  IN  [k \in 1..Len(up) |-> up[Len(up) + 1 - k]]

\* [i for i, v in enumerate(board) if v == ' ']
moves(b) == SelectSeq(Cells, LAMBDA i : b[i + 1] = " ")

\* terminal() without the full-board test.
terminal_win_only(b) == winner(b) # NoWinner

\* winner(board) is not None or not moves(board)
terminal(b) == winner(b) # NoWinner \/ moves(b) = <<>>

-----------------------------------------------------------------------------
(* STEP 3: utility *)

\* utility() with the loss branch returning 0.
utility_no_loss(b, me, opp) == IF winner(b) = me THEN 1 ELSE 0

\* utility() with the final else returning 1.
utility_draw_wins(b, me, opp) ==
  IF winner(b) = me THEN 1 ELSE IF winner(b) = opp THEN -1 ELSE 1

utility(b, me, opp) ==
  LET w == winner(b)
  IN  IF w = me THEN 1
      ELSE IF w = opp THEN -1
      ELSE 0

-----------------------------------------------------------------------------
(* The two statements `b2 = board[:]` and `b2[m] = player`.  b2 is the new  *)
(* list handed to the recursive call; board is the caller's list after the *)
(* two statements, which the loop goes on with.                            *)

\* `board[m] = player` on the caller's list, a copy of it handed down.
Branch_in_place(b, m, player) ==
  [b2 |-> [b EXCEPT ![m + 1] = player], board |-> [b EXCEPT ![m + 1] = player]]

Branch(b, m, player) ==
  [b2 |-> [b EXCEPT ![m + 1] = player], board |-> b]

-----------------------------------------------------------------------------
(* STEP 4: minimax.  A call is the tuple <<board, player, me, opp, n>>,    *)
(* n the value of minimax_nodes when the call is made.  The state of its   *)
(* for loop, and its result, is the record [val, move, nodes, board]:      *)
(* best_val, best_move, minimax_nodes and the caller's list.               *)

RECURSIVE minimax_loop(_, _, _, _, _)

minimax_call[a \in Seq(Marks) \X Marks \X Marks \X Marks \X Nat] ==
  IF terminal(a[1])
  THEN [val |-> utility(a[1], a[3], a[4]), move |-> None,
        nodes |-> a[5] + 1, board |-> a[1]]
  ELSE minimax_loop([val |-> (IF a[2] = a[3] THEN -2 ELSE 2), move |-> None,
                     nodes |-> a[5] + 1, board |-> a[1]],
                    a[2], a[3], a[4], moves(a[1]))

\* The pass of the for loop for the i-th move of ms, entered in state s; s
\* itself when ms has no i-th move.
minimax_pass(s, player, me, opp, ms, i) ==
  IF i > Len(ms) THEN s
  ELSE LET m == ms[i]
           br == Branch(s.board, m, player)
           next_player == IF player = me THEN opp ELSE me
           r == minimax_call[<<br.b2, next_player, me, opp, s.nodes>>]
           better == \/ player = me /\ r.val > s.val
                     \/ player = opp /\ r.val < s.val
       IN  [nodes |-> r.nodes,
            board |-> br.board,
            val |-> IF better THEN r.val ELSE s.val,
            move |-> IF better THEN m ELSE s.move]

\* `for m in moves(board)`: the passes in order, nine at most, s0 the state
\* before the first; the result is the state after the last.
minimax_loop(s0, player, me, opp, ms) ==
  LET s1 == minimax_pass(s0, player, me, opp, ms, 1)
      s2 == minimax_pass(s1, player, me, opp, ms, 2)
      s3 == minimax_pass(s2, player, me, opp, ms, 3)
      s4 == minimax_pass(s3, player, me, opp, ms, 4)
      s5 == minimax_pass(s4, player, me, opp, ms, 5)
      s6 == minimax_pass(s5, player, me, opp, ms, 6)
      s7 == minimax_pass(s6, player, me, opp, ms, 7)
      s8 == minimax_pass(s7, player, me, opp, ms, 8)
      s9 == minimax_pass(s8, player, me, opp, ms, 9)
  IN  <<s1, s2, s3, s4, s5, s6, s7, s8, s9>>[9]

minimax(b, player, me, opp, n) == minimax_call[<<b, player, me, opp, n>>]

-----------------------------------------------------------------------------
(* STEP 6: alpha-beta pruning.  A call is the tuple                        *)
(* <<board, player, alpha, beta, me, opp, n>>.  The state of its for loop  *)
(* is [val, move, nodes, board, alpha, beta, broke]: broke is TRUE once    *)
(* `break` was executed.                                                   *)

max(x, y) == IF x >= y THEN x ELSE y
min(x, y) == IF x <= y THEN x ELSE y

\* The cut taken one step early.
Prune_early(alpha, beta) == alpha + 1 >= beta

\* The cut never taken.
Prune_never(alpha, beta) == FALSE

\* `if alpha >= beta:  # prune`
Prune(alpha, beta) == alpha >= beta

RECURSIVE alphabeta_loop(_, _, _, _, _)

alphabeta_call[a \in Seq(Marks) \X Marks \X Int \X Int \X Marks \X Marks \X Nat] ==
  IF terminal(a[1])
  THEN [val |-> utility(a[1], a[5], a[6]), move |-> None,
        nodes |-> a[7] + 1, board |-> a[1]]
  ELSE alphabeta_loop([val |-> (IF a[2] = a[5] THEN -2 ELSE 2), move |-> None,
                       nodes |-> a[7] + 1, board |-> a[1],
                       alpha |-> a[3], beta |-> a[4], broke |-> FALSE],
                      a[2], a[5], a[6], moves(a[1]))

\* The pass of the for loop for the i-th move of ms, entered in state s; s
\* itself when ms has no i-th move or the loop was left by `break`.  The MAX
\* branch (player == me) raises alpha, the MIN branch lowers beta.
alphabeta_pass(s, player, me, opp, ms, i) ==
  IF i > Len(ms) \/ s.broke THEN s
  ELSE LET m == ms[i]
           br == Branch(s.board, m, player)
           next_player == IF player = me THEN opp ELSE me
           r == alphabeta_call[<<br.b2, next_player, s.alpha, s.beta,
                                 me, opp, s.nodes>>]
           better == IF player = me THEN r.val > s.val ELSE r.val < s.val
           alpha1 == IF player = me THEN max(s.alpha, r.val) ELSE s.alpha
           beta1 == IF player = me THEN s.beta ELSE min(s.beta, r.val)
       IN  [nodes |-> r.nodes,
            board |-> br.board,
            val |-> IF better THEN r.val ELSE s.val,
            move |-> IF better THEN m ELSE s.move,
            alpha |-> alpha1,
            beta |-> beta1,
            broke |-> Prune(alpha1, beta1)]

\* `for m in moves(board)`: the passes in order, nine at most.
alphabeta_loop(s0, player, me, opp, ms) ==
  LET s1 == alphabeta_pass(s0, player, me, opp, ms, 1)
      s2 == alphabeta_pass(s1, player, me, opp, ms, 2)
      s3 == alphabeta_pass(s2, player, me, opp, ms, 3)
      s4 == alphabeta_pass(s3, player, me, opp, ms, 4)
      s5 == alphabeta_pass(s4, player, me, opp, ms, 5)
      s6 == alphabeta_pass(s5, player, me, opp, ms, 6)
      s7 == alphabeta_pass(s6, player, me, opp, ms, 7)
      s8 == alphabeta_pass(s7, player, me, opp, ms, 8)
      s9 == alphabeta_pass(s8, player, me, opp, ms, 9)
  IN  <<s1, s2, s3, s4, s5, s6, s7, s8, s9>>[9]

alphabeta(b, player, alpha, beta, me, opp, n) ==
  alphabeta_call[<<b, player, alpha, beta, me, opp, n>>]

-----------------------------------------------------------------------------
(* Console input.  A text is the tuple of its characters.                  *)

human == "X"
ai == "O"

RECURSIVE lstrip(_)
lstrip(s) == IF s # <<>> /\ Head(s) = " " THEN lstrip(Tail(s)) ELSE s

RECURSIVE rstrip(_)
rstrip(s) ==
  IF s # <<>> /\ s[Len(s)] = " " THEN rstrip(SubSeq(s, 1, Len(s) - 1)) ELSE s

\* str.strip()
strip(s) == rstrip(lstrip(s))

UPPER == <<"Y", "E", "S", "N", "O">>
LOWER == <<"y", "e", "s", "n", "o">>

\* str.lower()
lower(s) ==
  [i \in 1..Len(s) |->
     IF \E k \in 1..Len(UPPER) : UPPER[k] = s[i]
     THEN LOWER[CHOOSE k \in 1..Len(UPPER) : UPPER[k] = s[i]]
     ELSE s[i]]

\* input(...).strip().lower().startswith('y')
answers_yes(s) == LET t == lower(strip(s)) IN t # <<>> /\ t[1] = "y"

DIGITS == <<"0", "1", "2", "3", "4", "5", "6", "7", "8", "9">>

IsDigit(c) == \E d \in 1..Len(DIGITS) : DIGITS[d] = c

DigitValue(c) == (CHOOSE d \in 1..Len(DIGITS) : DIGITS[d] = c) - 1

RECURSIVE digits_value(_, _)
digits_value(s, acc) ==
  IF s = <<>> THEN acc
  ELSE digits_value(Tail(s), acc * 10 + DigitValue(Head(s)))

\* int(text): surrounding blanks and one sign are accepted, then digits only;
\* anything else raises ValueError (ok = FALSE).
int(s) ==
  LET t == strip(s)
      signed == t # <<>> /\ t[1] \in {"+", "-"}
      body == IF signed THEN Tail(t) ELSE t
  IN  IF body = <<>> \/ \E i \in 1..Len(body) : ~IsDigit(body[i])
      THEN [ok |-> FALSE, value |-> 0]
      ELSE [ok |-> TRUE,
            value |-> (IF signed /\ t[1] = "-" THEN -1 ELSE 1)
                      * digits_value(body, 0)]

\* The largest number the modelled human types.
MaxTyped == 10

\* The decimal text of n, 0 <= n <= 99.
text_of(n) ==
  IF n < 10 THEN <<DIGITS[n + 1]>>
  ELSE <<DIGITS[(n \div 10) + 1], DIGITS[(n % 10) + 1]>>

\* What the human may type at "Enter your move (1-9): ".
MoveTexts ==
  {text_of(n) : n \in 0..MaxTyped}
    \cup {<<>>, <<"x">>, <<"5", "x">>, <<"-", "1">>, <<" ", "5">>, <<"1", ".", "5">>}

\* What the human may type at a (y/n) question.
Answers == {<<"y">>, <<"n">>, <<"Y", "e", "s">>, <<" ", "y">>, <<>>, <<"N", "o">>}

-----------------------------------------------------------------------------
(* STEP 5: play_game *)

\* The test narrowed to the range of the index.
InMoves_range_only(p, b) == p \in 0..8

\* `pos not in moves(board)` is the negation of this.
InMoves(p, b) == \E i \in 1..Len(moves(b)) : moves(b)[i] = p

\* The list assignment board[i] = v: a negative index counts from the end,
\* an index outside -9..8 raises IndexError (ok = FALSE).
setitem(b, i, v) ==
  IF i \in 0..8 THEN [ok |-> TRUE, board |-> [b EXCEPT ![i + 1] = v]]
  ELSE IF i \in -9..-1 THEN [ok |-> TRUE, board |-> [b EXCEPT ![i + 10] = v]]
  ELSE [ok |-> FALSE, board |-> b]

\* The turn not passed.
next_current_stuck(c) == c

\* current = ai if current == human else human
next_current(c) == IF c = human THEN ai ELSE human

\* The result of a search call as the caller sees it.
Pair(r) == [val |-> r.val, move |-> r.move]

\* No search has returned yet.
NoResult == [val |-> -2, move |-> None]

Init ==
  /\ pc = "ask_first"
  /\ board = EmptyBoard
  /\ current = "None"
  /\ first = FALSE
  /\ use_pruning = FALSE
  /\ pos = None
  /\ typed = <<>>
  /\ said = "Welcome to Tic-Tac-Toe (You are X, AI is O)"
  /\ minimax_nodes = 0
  /\ alphabeta_nodes = 0
  /\ mm = NoResult
  /\ ab = NoResult
  /\ raised = "None"

\* first = input("Do you want to go first? (y/n): ")...; current = ...
AskFirst ==
  /\ pc = "ask_first"
  /\ \E t \in Answers :
       /\ first' = answers_yes(t)
       /\ current' = IF answers_yes(t) THEN human ELSE ai
  /\ pc' = "ask_pruning"
  /\ UNCHANGED <<board, use_pruning, pos, typed, said, minimax_nodes,
                 alphabeta_nodes, mm, ab, raised>>

\* use_pruning = input("Use Alpha-Beta pruning? (y/n): ")...
AskPruning ==
  /\ pc = "ask_pruning"
  /\ \E t \in Answers : use_pruning' = answers_yes(t)
  /\ pc' = "loop"
  /\ UNCHANGED <<board, current, first, pos, typed, said, minimax_nodes,
                 alphabeta_nodes, mm, ab, raised>>

\* One pass of the while loop with current == human.
HumanTurn ==
  /\ pc = "loop"
  /\ ~terminal(board)
  /\ current = human
  /\ \E t \in MoveTexts : \E n \in {int(t)} :
       /\ typed' = t
       /\ IF ~n.ok
          THEN /\ said' = "Please enter a number 1-9."
               /\ UNCHANGED <<pc, board, current, pos, raised>>
          ELSE /\ pos' = n.value - 1
               /\ IF ~InMoves(n.value - 1, board)
                  THEN /\ said' = "Invalid move. Try again."
                       /\ UNCHANGED <<pc, board, current, raised>>
                  ELSE \E w \in {setitem(board, n.value - 1, human)} :
                         IF w.ok
                         THEN /\ board' = w.board
                              /\ said' = "board"
                              /\ current' = next_current(current)
                              /\ UNCHANGED <<pc, raised>>
                         ELSE /\ raised' = "IndexError"
                              /\ pc' = "crashed"
                              /\ UNCHANGED <<board, said, current>>
  /\ UNCHANGED <<first, use_pruning, minimax_nodes, alphabeta_nodes, mm, ab>>

\* The rest of a pass with current == ai, once the search returned r:
\* the f-string evaluates m+1, then board[m] = ai, print_board, the turn passes.
AfterSearch(r) ==
  IF r.move = None
  THEN /\ raised' = "TypeError"
       /\ pc' = "crashed"
       /\ board' = r.board
       /\ said' = "AI is thinking..."
       /\ UNCHANGED current
  ELSE LET w == setitem(r.board, r.move, ai)
       IN  IF w.ok
           THEN /\ board' = w.board
                /\ said' = "board"
                /\ current' = next_current(current)
                /\ UNCHANGED <<pc, raised>>
           ELSE /\ raised' = "IndexError"
                /\ pc' = "crashed"
                /\ board' = r.board
                /\ said' = "AI chose position"
                /\ UNCHANGED current

\* One pass of the while loop with current == ai.
AITurn ==
  /\ pc = "loop"
  /\ ~terminal(board)
  /\ current # human
  /\ IF use_pruning
     THEN \E r \in {alphabeta(board, ai, -2, 2, ai, human, 0)} :
              /\ minimax_nodes' = 0
              /\ alphabeta_nodes' = r.nodes
              /\ ab' = Pair(r)
              /\ mm' = mm
              /\ AfterSearch(r)
     ELSE \E r \in {minimax(board, ai, ai, human, 0)} :
              /\ minimax_nodes' = r.nodes
              /\ alphabeta_nodes' = 0
              /\ mm' = Pair(r)
              /\ ab' = ab
              /\ AfterSearch(r)
  /\ UNCHANGED <<first, use_pruning, pos, typed>>

\* The while loop ends and the result is announced.
Announce ==
  /\ pc = "loop"
  /\ terminal(board)
  /\ said' = (IF winner(board) = human THEN "You win!"
              ELSE IF winner(board) = ai THEN "AI wins!"
              ELSE "It's a draw!")
  /\ pc' = "done"
  /\ UNCHANGED <<board, current, first, use_pruning, pos, typed,
                 minimax_nodes, alphabeta_nodes, mm, ab, raised>>

Next == AskFirst \/ AskPruning \/ HumanTurn \/ AITurn \/ Announce

Spec == Init /\ [][Next]_vars

-----------------------------------------------------------------------------
(* The two searches as pure functions: boards are drawn by alternating     *)
(* legal play from the empty board, either mark moving first, and both     *)
(* searches are called on the board for the side to move, each with its    *)
(* counter reset to 0 first.                                               *)

\* The searches are called on the empty board and on the boards with at most
\* this many empty cells.
MaxSearchEmpty == 5

\* opp for me.
Other(p) == IF p = "X" THEN "O" ELSE "X"

SearchInit ==
  /\ pc = "placed"
  /\ board = EmptyBoard
  /\ current \in {"X", "O"}
  /\ first = (current = human)
  /\ use_pruning = FALSE
  /\ pos = None
  /\ typed = <<>>
  /\ said = ""
  /\ minimax_nodes = 0
  /\ alphabeta_nodes = 0
  /\ mm = NoResult
  /\ ab = NoResult
  /\ raised = "None"

\* The side to move marks an empty cell and the turn passes.
Place ==
  /\ pc = "placed"
  /\ ~terminal(board)
  /\ \E i \in 1..Len(moves(board)) :
       board' = setitem(board, moves(board)[i], current).board
  /\ current' = Other(current)
  /\ UNCHANGED <<pc, first, use_pruning, pos, typed, said, minimax_nodes,
                 alphabeta_nodes, mm, ab, raised>>

\* minimax_nodes = 0; mm = minimax(board, me, me, opp)
CallMinimax ==
  /\ pc = "placed"
  /\ board = EmptyBoard \/ Len(moves(board)) <= MaxSearchEmpty
  /\ \E r \in {minimax(board, current, current, Other(current), 0)} :
         /\ minimax_nodes' = r.nodes
         /\ mm' = Pair(r)
         /\ board' = r.board
  /\ pc' = "minimax_returned"
  /\ UNCHANGED <<current, first, use_pruning, pos, typed, said,
                 alphabeta_nodes, ab, raised>>

\* alphabeta_nodes = 0; ab = alphabeta(board, me, -2, 2, me, opp)
CallAlphabeta ==
  /\ pc = "minimax_returned"
  /\ \E r \in {alphabeta(board, current, -2, 2, current, Other(current), 0)} :
         /\ alphabeta_nodes' = r.nodes
         /\ ab' = Pair(r)
         /\ board' = r.board
  /\ pc' = "alphabeta_returned"
  /\ UNCHANGED <<current, first, use_pruning, pos, typed, said,
                 minimax_nodes, mm, raised>>

SearchNext == Place \/ CallMinimax \/ CallAlphabeta

SearchSpec == SearchInit /\ [][SearchNext]_vars

-----------------------------------------------------------------------------
(* Properties *)

\* The Python indices of the empty cells of b.
EmptyCells(b) == {i \in 0..8 : b[i + 1] = " "}

\* The number of cells of b holding mark.
Count(b, mark) == Cardinality({i \in 1..9 : b[i] = mark})

\* The game-theoretic value of board a[1] for side a[3] when a[2] is to move:
\* +1 if a[3] has a full line or can force one, -1 if the other side has or
\* can, 0 otherwise.
GameValue[a \in Seq(Marks) \X Marks \X Marks] ==
  LET won == {k \in 1..Len(LINES) :
                /\ a[1][LINES[k][1] + 1] # " "
                /\ a[1][LINES[k][1] + 1] = a[1][LINES[k][2] + 1]
                /\ a[1][LINES[k][2] + 1] = a[1][LINES[k][3] + 1]}
      free == {i \in 1..9 : a[1][i] = " "}
      vs == {GameValue[<<[a[1] EXCEPT ![i] = a[2]],
                         (IF a[2] = "X" THEN "O" ELSE "X"), a[3]>>] : i \in free}
  IN  IF won # {}
      THEN IF \E k \in won : a[1][LINES[k][1] + 1] = a[3] THEN 1 ELSE -1
      ELSE IF free = {} THEN 0
      ELSE IF a[2] = a[3]
      THEN CHOOSE v \in vs : \A w \in vs : v >= w
      ELSE CHOOSE v \in vs : \A w \in vs : v <= w

\* The value for side me of the position after player marks cell m of b.
ValueAfter(b, m, player, me) ==
  GameValue[<<[b EXCEPT ![m + 1] = player], Other(player), me>>]

\* The lowest-index empty cell of b whose marking by me is best for me.
FirstBest(b, me) ==
  LET vals == {<<m, ValueAfter(b, m, me, me)>> : m \in EmptyCells(b)}
  IN  (CHOOSE p \in vals :
         /\ \A q \in vals : q[2] <= p[2]
         /\ \A q \in vals : q[1] < p[1] => q[2] < p[2])[1]

\* C1: on every searched non-terminal board reached by alternating legal play
\* (either mark first, the side to move searching), minimax(board, me, me, opp)
\* and alphabeta(board, me, -2, 2, me, opp) return the same (value, move).
C1_SameResult ==
  (pc = "alphabeta_returned" /\ ~terminal(board)) => ab = mm

C1_Witness ==
  /\ pc = "alphabeta_returned"
  /\ ~terminal(board)
  /\ current = "X"
  /\ alphabeta_nodes < minimax_nodes
  /\ ab = mm
  /\ mm.move \in EmptyCells(board)

\* C3: on the empty board, the searching side moving first, minimax and
\* alphabeta (alpha = -2, beta = 2) both return value 0.
C3_EmptyBoardDraw ==
  /\ (pc \in {"minimax_returned", "alphabeta_returned"} /\ board = EmptyBoard)
       => mm.val = 0
  /\ (pc = "alphabeta_returned" /\ board = EmptyBoard) => ab.val = 0

C3_Witness ==
  /\ pc = "alphabeta_returned"
  /\ board = EmptyBoard
  /\ current = "O"
  /\ minimax_nodes > 1
  /\ alphabeta_nodes > 1
  /\ mm.val = 0
  /\ ab.val = 0

\* C5: with both counters reset before the calls, alphabeta_nodes after
\* alphabeta is at most minimax_nodes after minimax on the same board, and
\* strictly less on the empty board.
C5_FewerNodes ==
  pc = "alphabeta_returned" =>
    /\ alphabeta_nodes <= minimax_nodes
    /\ board = EmptyBoard => alphabeta_nodes < minimax_nodes

C5_Witness ==
  /\ pc = "alphabeta_returned"
  /\ board = EmptyBoard
  /\ minimax_nodes = 549946
  /\ alphabeta_nodes < 549946
  /\ alphabeta_nodes > 9

\* The board of scenario 2: X at 0 and 1, O at 3 and 4.
BlockBoard == <<"X", "X", " ", "O", "O", " ", " ", " ", " ">>

\* C6: on BlockBoard with O searching and to move, minimax and alphabeta
\* return move 2.
C6_Blocks ==
  (pc = "alphabeta_returned" /\ board = BlockBoard /\ current = "O")
    => (mm.move = 2 /\ ab.move = 2)

C6_Witness ==
  /\ pc = "alphabeta_returned"
  /\ board = BlockBoard
  /\ current = "O"
  /\ mm.move = 2
  /\ ab.move = 2
  /\ mm.val = 1

\* C4: on every searched non-terminal board, the side to move searching, the
\* move minimax returns, and likewise the move alphabeta (alpha = -2, beta = 2)
\* returns, is an empty cell of the board and is the lowest-index cell among
\* the moves whose resulting position has the best game value for that side.
C4_LowestBestMove ==
  (pc = "alphabeta_returned" /\ ~terminal(board)) =>
    \E best \in {FirstBest(board, current)} :
      /\ mm.move \in EmptyCells(board)
      /\ ab.move \in EmptyCells(board)
      /\ mm.move = best
      /\ ab.move = best

\* Two cells are best and the lower one is returned.
C4_Witness ==
  /\ pc = "alphabeta_returned"
  /\ ~terminal(board)
  /\ mm.move = ab.move
  /\ \E j \in EmptyCells(board) :
       /\ j > mm.move
       /\ ValueAfter(board, j, current, current)
            = ValueAfter(board, mm.move, current, current)
  /\ \E j \in EmptyCells(board) :
       /\ j < mm.move
       /\ ValueAfter(board, j, current, current)
            < ValueAfter(board, mm.move, current, current)

\* b has three equal marks in a line or no empty cell.
GameOver(b) ==
  \/ \E k \in 1..Len(LINES) :
       /\ b[LINES[k][1] + 1] # " "
       /\ \A j \in 2..3 : b[LINES[k][j] + 1] = b[LINES[k][1] + 1]
  \/ EmptyCells(b) = {}

\* C7 as claimed: a search called on a board that is already terminal ends in
\* an error, it does not return normally.
C7_TerminalRaises ==
  (pc \in {"minimax_returned", "alphabeta_returned"} /\ GameOver(board))
    => raised # "None"

\* C7 as the code has it: a search called on a board that is already terminal
\* returns normally, with the board's utility as value and None as move,
\* having counted one node.
C7_TerminalReturnsNone ==
  (pc = "alphabeta_returned" /\ GameOver(board)) =>
    /\ raised = "None"
    /\ mm.move = None
    /\ ab.move = None
    /\ mm.val = ab.val
    /\ mm.val = (IF winner(board) = current THEN 1
                 ELSE IF winner(board) = Other(current) THEN -1
                 ELSE 0)
    /\ minimax_nodes = 1
    /\ alphabeta_nodes = 1

\* A full board without a winner was searched.
C7_Witness ==
  /\ pc = "alphabeta_returned"
  /\ EmptyCells(board) = {}
  /\ winner(board) = NoWinner
  /\ raised = "None"
  /\ mm = [val |-> 0, move |-> None]
  /\ ab = [val |-> 0, move |-> None]

\* C8: a call of minimax or alphabeta leaves the caller's board as it was,
\* and each tentative move is made on a copy: the caller's list is unchanged
\* by it and the copy differs from it in the moved cell only.
C8_BoardUnchanged ==
  /\ [][pc' \in {"minimax_returned", "alphabeta_returned"} => board' = board]_vars
  /\ [](\A m \in EmptyCells(board) :
          /\ Branch(board, m, current).board = board
          /\ Branch(board, m, current).b2 = [board EXCEPT ![m + 1] = current])

\* Both searches returned from a board on which they tried moves.
C8_Witness ==
  /\ pc = "alphabeta_returned"
  /\ ~terminal(board)
  /\ minimax_nodes > 1
  /\ alphabeta_nodes > 1
  /\ Count(board, " ") >= 2

\* C2: in play_game, whoever moves first and whichever search is selected,
\* no reachable board has the human's mark as winner.
C2_AINeverLoses == winner(board) # human

\* A game the human started and played to the end against the pruned search.
C2_Witness ==
  /\ pc = "done"
  /\ first
  /\ use_pruning
  /\ EmptyCells(board) = {}
  /\ said = "It's a draw!"

\* The side that moved first in play_game.
FirstMover == IF first THEN human ELSE ai

\* C9: once play_game has set current, the board holds only 'X', 'O' and ' ',
\* the first mover has as many marks as the other side or one more, and it is
\* the first mover's turn exactly when the counts are equal; every step that
\* changes the board writes the mark of the side to move into one cell that
\* was empty, and passes the turn.
C9_Alternation ==
  /\ [](pc \in {"ask_pruning", "loop", "done"} =>
          /\ \A i \in 1..9 : board[i] \in {"X", "O", " "}
          /\ Count(board, FirstMover) - Count(board, next_current(FirstMover))
               \in {0, 1}
          /\ (current = FirstMover) <=>
               (Count(board, FirstMover)
                  = Count(board, next_current(FirstMover))))
  /\ [][board' # board =>
          /\ \E i \in 1..9 :
               /\ board[i] = " "
               /\ board'[i] = current
               /\ \A j \in (1..9) \ {i} : board'[j] = board[j]
          /\ current' # current
          /\ current' \in {human, ai}]_vars

\* The AI started and the board was filled.
C9_Witness ==
  /\ pc = "done"
  /\ ~first
  /\ Count(board, ai) = 5
  /\ Count(board, human) = 4

\* The text t is no number, or the cell it names is not an empty cell of b.
Unacceptable(t, b) ==
  \/ ~int(t).ok
  \/ int(t).value - 1 \notin EmptyCells(b)

\* C10: in play_game, when the human's input is not a number or names a cell
\* that is not in moves(board), the board and the side to move stay as they
\* are and the human is asked again; a human mark is only ever written to a
\* cell of moves(board), the one the input names.
C10_InputChecked ==
  /\ [][(pc = "loop" /\ current = human /\ ~terminal(board)
           /\ Unacceptable(typed', board))
         => /\ board' = board
            /\ current' = current
            /\ pc' = "loop"
            /\ said' \in {"Please enter a number 1-9.",
                          "Invalid move. Try again."}]_vars
  /\ [][\A i \in 1..9 :
          (board'[i] = human /\ board[i] # human)
            => /\ current = human
               /\ board[i] = " "
               /\ InMoves(i - 1, board)
               /\ int(typed').ok
               /\ int(typed').value = i]_vars

\* An occupied cell was named and refused.
C10_Witness ==
  /\ pc = "loop"
  /\ current = human
  /\ said = "Invalid move. Try again."
  /\ pos \in 0..8
  /\ board[pos + 1] # " "

====
